---- MODULE Spec2Model ----
(***************************************************************************)
(* A model of the Raveling designer suite front end (React components) and *)
(* of the approval workflow its documentation describes.  Each subsystem   *)
(* has its own state and its own specification; the variables of the other *)
(* subsystems stay at their initial values under it.                       *)
(***************************************************************************)
EXTENDS Integers, Sequences, FiniteSets, TLC

VARIABLES
    \* -- authentication, routing, registration, user management
    authLoading,    \* useAuth().loading
    authUser,       \* useAuth().user, NoUser for null
    token,          \* the session kept across page loads (localStorage)
    path,           \* the router's location
    view,           \* what the route renders
    redirected,     \* the last render followed ProtectedRoute's <Navigate to="/">
    showRegister,   \* LoginForm.showRegister
    reg,            \* RegistrationForm's state
    regPending,     \* the POST /api/auth/register the shown form awaits
    regStale,       \* accepted registrations awaited by forms that are gone
    regBackTimer,   \* the setTimeout(onBack, 2000) is pending
    serverUsers,    \* the ids of the backend's accounts
    um,             \* UserManagement's state
    umPending,      \* the request the mounted UserManagement awaits
    umStale,        \* requests awaited by handlers of unmounted instances
    umIssued,       \* the mounted UserManagement has sent a /api/users request
    lastReq,        \* the request the running page sent last
    \* -- approval workflow
    design,         \* the design repository: name -> config, NoConfig for none
    approved,       \* the production table: a sequence of approved configs
    lastOp,         \* the workflow operation done last
    \* -- weapons designer page
    formData,       \* WeaponForm's form state
    weaponConfig,   \* WeaponsDesigner's weapon config, shown by the preview tabs
    showStyleDesigner, styleDesignerMode,
    activeTab,      \* PreviewTabs: "yaml" or "analysis"
    \* -- AnalysisTools, mounted while the analysis tab is shown
    numStrikes, anLoading, anError, analysisData,
    anPending,      \* the analyze request awaited by the mounted component
    runs,           \* the calls of runAnalysis, counted modulo 2
    \* -- EffectStyleDesigner
    esOpen,         \* the designer is mounted
    es,             \* its form state
    esAlert,        \* the alert its save raised, "" for none
    emitted,        \* the style its save handed to onSave, NoStyle for none
    \* -- collaboration notes: one category's note at the backend and in each
    \*    designer's panel
    noteServer,     \* the note's content at the backend
    panel,          \* designer -> the panel is mounted
    notes,          \* designer -> the textarea's content
    noteLoading,    \* designer -> loadNote awaits its answer
    timer,          \* designer -> the content the armed timer saves
    posts,          \* timers of closed panels and POSTs not yet handled
    \* -- a designer page (weapons, skills or spells) and its form, render
    \*    by render
    pgKind,         \* the page that is mounted, "none" before
    pgConfig,       \* the page's config state: an object with its identity
    pgForm,         \* the form's formData state: an object with its identity
    pgCb,           \* the identity of handleFormChange of the page's last render
    pgDeps,         \* the dependencies the form's effect last ran with
    pgRuns,         \* runs of the form's effect since the last event
    pgEvent,        \* the last event: mount, edit, load
    pgLoad,         \* the load-config request the page awaits
    pgEvents,       \* events so far
    pgSaved,        \* the config the last Save posted
    \* -- one browser's collaboration panel with its tabs and its timers
    caMounted,      \* CollaborationArea is mounted (NotesButton.showNotes)
    caInst,         \* the instances of CollaborationArea mounted so far
    caTab,          \* activeTab
    caNotes,        \* notes: tab -> text
    caLoading,      \* the tabs whose loadNote awaits its answer
    caRef,          \* saveTimeoutRef.current: tab -> timer id, 0 for none
    caTimers,       \* the browser's pending timers
    caIds,          \* timer ids handed out so far
    caPosts,        \* the POSTs sent, in order
    caCalls,        \* the calls of saveNote so far
    caEvents,       \* edits, blurs, tab switches, openings, closings so far
    caLast,         \* the last step of the panel
    \* -- the die-roll preview of DistributionParameterWidget
    dice            \* the notation parsed and calculateDiceProbabilities' locals

authVars == <<authLoading, authUser, token, path, view, redirected, showRegister, reg,
              regPending, regStale, regBackTimer, serverUsers, um, umPending, umStale,
              umIssued, lastReq>>

apprVars == <<design, approved, lastOp>>

formVars == <<formData, weaponConfig, showStyleDesigner, styleDesignerMode>>

analysisVars == <<activeTab, numStrikes, anLoading, anError, analysisData, anPending,
                  runs>>

styleVars == <<esOpen, es, esAlert, emitted>>

noteVars == <<noteServer, panel, notes, noteLoading, timer, posts>>

pageVars == <<pgKind, pgConfig, pgForm, pgCb, pgDeps, pgRuns, pgEvent, pgLoad,
              pgEvents, pgSaved>>

caVars == <<caMounted, caInst, caTab, caNotes, caLoading, caRef, caTimers, caIds,
            caPosts, caCalls, caEvents, caLast>>

vars == <<authVars, apprVars, formVars, analysisVars, styleVars, noteVars, pageVars,
          caVars, dice>>

\* What the actions of one subsystem leave alone.
notAuth == <<apprVars, formVars, analysisVars, styleVars, noteVars, pageVars, caVars, dice>>
notApproval == <<authVars, formVars, analysisVars, styleVars, noteVars, pageVars, caVars, dice>>
notWeapons == <<authVars, apprVars, styleVars, noteVars, pageVars, caVars, dice>>
notStyle == <<authVars, apprVars, formVars, analysisVars, noteVars, pageVars, caVars, dice>>
notNotes == <<authVars, apprVars, formVars, analysisVars, styleVars, pageVars, caVars, dice>>
notPages == <<authVars, apprVars, formVars, analysisVars, styleVars, noteVars, caVars, dice>>
notDice == <<authVars, apprVars, formVars, analysisVars, styleVars, noteVars, pageVars,
            caVars>>
notPanel == <<authVars, apprVars, formVars, analysisVars, styleVars, noteVars, pageVars, dice>>

(***************************************************************************)
(* 1. Authentication, routing, registration, user management               *)
(***************************************************************************)

MaxUsers == 2
UserIds == 1..MaxUsers

Roles == {"admin", "designer", "player", "viewer"}

\* The options of the registration form's role select.
RegistrationRoleOptions == {"player", "viewer"}

\* The options of the role selects of the user-management page.
ManagementRoleOptions == {"admin", "designer", "player", "viewer"}

NoUser == [id |-> 0, role |-> "none"]

MinPasswordLength == 6
Passwords == {"abc", "secret"}

Paths == {"/", "/about", "/designer", "/admin/users"}

NoRequest == [method |-> "none", url |-> "none", role |-> "none", by |-> "none"]

Request(method, url, role, by) ==
    [method |-> method, url |-> url, role |-> role, by |-> by]

RegistrationFormInit ==
    [role |-> "player", password |-> "", confirmPassword |-> "",
     error |-> "", success |-> FALSE, loading |-> FALSE]

UserManagementInit ==
    [users |-> {}, loading |-> TRUE, error |-> "", editingUser |-> NoUser,
     showCreateForm |-> FALSE, createRole |-> "player"]

NoPending == [op |-> "none", ok |-> FALSE, after |-> "none", by |-> "none"]

Pending(op, ok, after, by) == [op |-> op, ok |-> ok, after |-> after, by |-> by]

\* ProtectedRoute: the loading placeholder, the redirect, or the children.
ProtectedRouteLoadingFirst(loading, user) ==
    IF loading THEN "loading" ELSE "children"

ProtectedRoute(loading, user) ==
    IF loading THEN "loading"
    ELSE IF user = NoUser THEN "redirect"
    ELSE "children"

\* The element the router shows at path p, once redirects have been followed.
\* HomePage sends a signed-in user to /designer by a full page load.
Settled(p, loading, user) ==
    IF p = "/"
    THEN IF user # NoUser
         THEN [path |-> "/designer", view |-> "loading", reload |-> TRUE, redirect |-> FALSE]
         ELSE [path |-> "/", view |-> "login", reload |-> FALSE, redirect |-> FALSE]
    ELSE IF p = "/about"
    THEN [path |-> p, view |-> "about", reload |-> FALSE, redirect |-> FALSE]
    ELSE LET r == ProtectedRoute(loading, user)
         IN  IF r = "loading"
             THEN [path |-> p, view |-> "loading", reload |-> FALSE, redirect |-> FALSE]
             ELSE IF r = "redirect"
             THEN [path |-> "/", view |-> "login", reload |-> FALSE, redirect |-> TRUE]
             ELSE [path |-> p,
                   view |-> IF p = "/designer" THEN "designer" ELSE "usermgmt",
                   reload |-> FALSE, redirect |-> FALSE]

\* UserManagement's effect on [user]: only an admin fetches the users.
UserManagementEffectUnguarded(user) == TRUE

UserManagementEffect(user) == user.role = "admin"

\* What UserManagement renders.
UserManagementView(user, m) ==
    IF user.role # "admin" THEN "denied"
    ELSE IF m.loading THEN "loading"
    ELSE "table"

umView == IF view = "usermgmt" THEN UserManagementView(authUser, um) ELSE "none"

\* A route change or a change of the auth state: the router renders again,
\* unmounted components lose their state, a mounted UserManagement runs its
\* effect.  full: the page is loaded anew, which ends every pending callback.
Render(p, loading, user, full, req) ==
    LET s == Settled(p, loading, user)
        u == IF s.reload THEN NoUser ELSE user
        fresh == full \/ s.reload
        mounts == s.view = "usermgmt"
        fetches == mounts /\ UserManagementEffect(u)
        left == IF umPending.op = "mutate" /\ umPending.ok
                THEN {umPending.by} ELSE {}
        keepLogin == ~fresh /\ view = "login" /\ s.view = "login"
    IN  /\ path' = s.path
        /\ view' = s.view
        /\ redirected' = s.redirect
        /\ authLoading' = (IF s.reload THEN TRUE ELSE loading)
        /\ authUser' = u
        /\ showRegister' = (keepLogin /\ showRegister)
        /\ reg' = IF keepLogin THEN reg ELSE RegistrationFormInit
        /\ regPending' = IF keepLogin THEN regPending ELSE "none"
        /\ regStale' = (keepLogin /\ regStale)
        /\ regBackTimer' = (keepLogin /\ regBackTimer)
        /\ um' = UserManagementInit
        /\ umPending' = IF fetches THEN Pending("fetch", TRUE, "none", u.role)
                        ELSE NoPending
        /\ umStale' = IF fresh THEN {} ELSE umStale \cup left
        /\ umIssued' = fetches
        /\ lastReq' = IF fetches THEN Request("GET", "/api/users/", "none", u.role)
                      ELSE IF fresh THEN NoRequest
                      ELSE req

\* AuthProvider settles the session it finds: the stored user, or none.
AuthResolve ==
    /\ authLoading
    /\ \E u \in {token, NoUser} :
         /\ token' = u
         /\ Render(path, FALSE, u, FALSE, lastReq)
    /\ UNCHANGED <<serverUsers, notAuth>>

\* LoginForm.handleSubmit, accepted by the backend for one of its accounts.
Login ==
    /\ view = "login"
    /\ ~showRegister
    /\ \E id \in serverUsers, r \in Roles :
         /\ token' = [id |-> id, role |-> r]
         /\ Render(path, authLoading, [id |-> id, role |-> r], FALSE,
                   Request("POST", "/api/auth/login", "none", "none"))
    /\ UNCHANGED <<serverUsers, notAuth>>

\* Header.handleLogout: logout(), then navigate('/').
Logout ==
    /\ view = "designer"
    /\ token' = NoUser
    /\ Render("/", authLoading, NoUser, FALSE, lastReq)
    /\ UNCHANGED <<serverUsers, notAuth>>

\* A link or the browser's history: the route changes inside the running page.
Navigate ==
    /\ \E p \in Paths :
         /\ p # path
         /\ Render(p, authLoading, authUser, FALSE, lastReq)
    /\ UNCHANGED <<token, serverUsers, notAuth>>

\* The address is opened in the browser: the page is loaded anew.
OpenUrl ==
    /\ \E p \in Paths : Render(p, TRUE, NoUser, TRUE, lastReq)
    /\ UNCHANGED <<token, serverUsers, notAuth>>

routeFrame == <<authLoading, authUser, token, path, view, redirected>>
umFrame == <<um, umPending, umStale, umIssued>>
regFrame == <<showRegister, reg, regPending, regStale, regBackTimer>>

\* LoginForm: "Create one".
ShowRegistration ==
    /\ view = "login"
    /\ ~showRegister
    /\ showRegister' = TRUE
    /\ reg' = RegistrationFormInit
    /\ UNCHANGED <<notAuth, routeFrame, umFrame, regPending, regStale, regBackTimer,
                   serverUsers, lastReq>>

regFormShown == view = "login" /\ showRegister /\ ~reg.success

\* RegistrationForm: the role select's onChange.
SetRegistrationRoleAny(r) ==
    /\ r \in Roles
    /\ reg' = [reg EXCEPT !.role = r]

SetRegistrationRole(r) ==
    /\ r \in RegistrationRoleOptions
    /\ reg' = [reg EXCEPT !.role = r]

RegistrationSelectRole ==
    /\ regFormShown
    /\ \E r \in Roles : SetRegistrationRole(r)
    /\ UNCHANGED <<notAuth, routeFrame, umFrame, showRegister, regPending, regStale,
                   regBackTimer, serverUsers, lastReq>>

RegistrationTypePassword ==
    /\ regFormShown
    /\ \E p \in Passwords : reg' = [reg EXCEPT !.password = p]
    /\ UNCHANGED <<notAuth, routeFrame, umFrame, showRegister, regPending, regStale,
                   regBackTimer, serverUsers, lastReq>>

RegistrationTypeConfirm ==
    /\ regFormShown
    /\ \E p \in Passwords : reg' = [reg EXCEPT !.confirmPassword = p]
    /\ UNCHANGED <<notAuth, routeFrame, umFrame, showRegister, regPending, regStale,
                   regBackTimer, serverUsers, lastReq>>

\* The backend's answer to a registration: an account for a free id, or a
\* refusal.  It decides when the request is sent.
RegisterAccount(role, ok) ==
    IF ok
    THEN \E id \in UserIds \ serverUsers : serverUsers' = serverUsers \cup {id}
    ELSE UNCHANGED serverUsers

\* RegistrationForm.handleSubmit up to its await.  The inputs are required;
\* the two checks of the handler are its own.
RegistrationSubmit ==
    /\ regFormShown
    /\ ~reg.loading
    /\ reg.password # ""
    /\ reg.confirmPassword # ""
    /\ IF reg.password # reg.confirmPassword
       THEN /\ reg' = [reg EXCEPT !.error = "Passwords do not match"]
            /\ UNCHANGED <<regPending, lastReq, serverUsers>>
       ELSE IF Len(reg.password) < MinPasswordLength
       THEN /\ reg' = [reg EXCEPT !.error = "Password must be at least 6 characters"]
            /\ UNCHANGED <<regPending, lastReq, serverUsers>>
       ELSE /\ reg' = [reg EXCEPT !.error = "", !.loading = TRUE]
            /\ lastReq' = Request("POST", "/api/auth/register", reg.role, "none")
            /\ \E ok \in BOOLEAN :
                 /\ RegisterAccount(reg.role, ok)
                 /\ regPending' = IF ok THEN "ok" ELSE "failed"
    /\ UNCHANGED <<notAuth, routeFrame, umFrame, showRegister, regStale, regBackTimer>>

\* RegistrationForm.handleSubmit after its await: success and the timer that
\* leads back to the login form, or the catch.
RegistrationResponse ==
    /\ regPending # "none"
    /\ regPending' = "none"
    /\ IF regPending = "ok"
       THEN /\ reg' = [reg EXCEPT !.success = TRUE, !.loading = FALSE]
            /\ regBackTimer' = TRUE
       ELSE /\ reg' = [reg EXCEPT !.error = "Registration failed. Please try again.",
                                  !.loading = FALSE]
            /\ UNCHANGED regBackTimer
    /\ UNCHANGED <<notAuth, routeFrame, umFrame, showRegister, regStale, serverUsers, lastReq>>

\* The same answer reaching the handler of a form that is gone while
\* LoginForm is still there: only the timer is set.
RegistrationStaleResponse ==
    /\ regStale
    /\ regStale' = FALSE
    /\ regBackTimer' = TRUE
    /\ UNCHANGED <<notAuth, routeFrame, umFrame, showRegister, reg, regPending, serverUsers,
                   lastReq>>

\* onBack: the "Login" link, or the timer set after a successful registration.
RegistrationBack ==
    /\ view = "login"
    /\ \/ showRegister /\ ~reg.success /\ UNCHANGED regBackTimer
       \/ regBackTimer /\ regBackTimer' = FALSE
    /\ showRegister' = FALSE
    /\ reg' = RegistrationFormInit
    /\ regPending' = "none"
    /\ regStale' = (regStale \/ regPending = "ok")
    /\ UNCHANGED <<notAuth, routeFrame, umFrame, serverUsers, lastReq>>

\* ---- UserManagement.  One request of the mounted page is awaited at a time;
\* the backend applies a request when it is sent.

tableShown == umView = "table" /\ umPending.op = "none"

\* fetchUsers up to its await: setLoading(true), GET /api/users/.
StartFetch(m, after, by) ==
    /\ um' = [m EXCEPT !.loading = TRUE]
    /\ umPending' = Pending("fetch", TRUE, after, by)
    /\ lastReq' = Request("GET", "/api/users/", "none", by)

\* fetchUsers after its await, then what its caller does next.
UserManagementFetched ==
    /\ view = "usermgmt"
    /\ umPending.op = "fetch"
    /\ LET after == umPending.after
           done(m) == IF after = "update" THEN [m EXCEPT !.editingUser = NoUser]
                      ELSE IF after = "create" THEN [m EXCEPT !.showCreateForm = FALSE,
                                                              !.createRole = "player"]
                      ELSE m
       IN  \/ um' = done([um EXCEPT !.users = serverUsers, !.loading = FALSE])
           \/ um' = done([um EXCEPT !.error = "Failed to load users", !.loading = FALSE])
    /\ umPending' = NoPending
    /\ UNCHANGED <<notAuth, routeFrame, regFrame, umStale, umIssued, serverUsers, lastReq>>

\* The answer to a PUT, POST or DELETE of the mounted page: fetchUsers, or
\* the catch.
UserManagementAnswered ==
    /\ view = "usermgmt"
    /\ umPending.op = "mutate"
    /\ IF umPending.ok
       THEN StartFetch(um, umPending.after, umPending.by)
       ELSE /\ um' = [um EXCEPT !.error = "Failed to " \o umPending.after \o " user"]
            /\ umPending' = NoPending
            /\ UNCHANGED lastReq
    /\ UNCHANGED <<notAuth, routeFrame, regFrame, umStale, umIssued, serverUsers>>

\* The same answer reaching a handler whose page is gone: it still calls
\* fetchUsers, whose state updates are lost.
UserManagementStaleAnswered ==
    /\ \E by \in umStale :
         /\ umStale' = umStale \ {by}
         /\ lastReq' = Request("GET", "/api/users/", "none", by)
    /\ UNCHANGED <<notAuth, routeFrame, regFrame, um, umPending, umIssued, serverUsers>>

\* "+ Create User", and CreateUserForm's role select and Cancel.
UserManagementShowCreate ==
    /\ tableShown
    /\ ~um.showCreateForm
    /\ um' = [um EXCEPT !.showCreateForm = TRUE, !.createRole = "player"]
    /\ UNCHANGED <<notAuth, routeFrame, regFrame, umPending, umStale, umIssued, serverUsers, lastReq>>

UserManagementCreateSelectRole ==
    /\ tableShown
    /\ um.showCreateForm
    /\ \E r \in ManagementRoleOptions : um' = [um EXCEPT !.createRole = r]
    /\ UNCHANGED <<notAuth, routeFrame, regFrame, umPending, umStale, umIssued, serverUsers, lastReq>>

UserManagementCreateCancel ==
    /\ tableShown
    /\ um.showCreateForm
    /\ um' = [um EXCEPT !.showCreateForm = FALSE, !.createRole = "player"]
    /\ UNCHANGED <<notAuth, routeFrame, regFrame, umPending, umStale, umIssued, serverUsers, lastReq>>

\* handleCreateUser up to its await: POST /api/users/ with the chosen role.
UserManagementCreateSubmit ==
    /\ tableShown
    /\ um.showCreateForm
    /\ lastReq' = Request("POST", "/api/users/", um.createRole, authUser.role)
    /\ umIssued' = TRUE
    /\ \/ /\ \E id \in UserIds \ serverUsers : serverUsers' = serverUsers \cup {id}
          /\ umPending' = Pending("mutate", TRUE, "create", authUser.role)
       \/ /\ UNCHANGED serverUsers
          /\ umPending' = Pending("mutate", FALSE, "create", authUser.role)
    /\ UNCHANGED <<notAuth, routeFrame, regFrame, um, umStale>>

\* "Edit" on a row, the row's role select, "Cancel".
UserManagementEdit ==
    /\ tableShown
    /\ \E id \in um.users, r \in Roles :
         /\ um.editingUser.id # id
         /\ um' = [um EXCEPT !.editingUser = [id |-> id, role |-> r]]
    /\ UNCHANGED <<notAuth, routeFrame, regFrame, umPending, umStale, umIssued, serverUsers, lastReq>>

UserManagementEditSelectRole ==
    /\ tableShown
    /\ um.editingUser # NoUser
    /\ \E r \in ManagementRoleOptions :
         um' = [um EXCEPT !.editingUser = [id |-> um.editingUser.id, role |-> r]]
    /\ UNCHANGED <<notAuth, routeFrame, regFrame, umPending, umStale, umIssued, serverUsers, lastReq>>

UserManagementEditCancel ==
    /\ tableShown
    /\ um.editingUser # NoUser
    /\ um' = [um EXCEPT !.editingUser = NoUser]
    /\ UNCHANGED <<notAuth, routeFrame, regFrame, umPending, umStale, umIssued, serverUsers, lastReq>>

\* handleUpdateUser up to its await: PUT /api/users/{id} with the edited role.
UserManagementEditSave ==
    /\ tableShown
    /\ um.editingUser # NoUser
    /\ um.editingUser.id \in um.users
    /\ lastReq' = Request("PUT", "/api/users/{id}", um.editingUser.role, authUser.role)
    /\ umIssued' = TRUE
    /\ umPending' = Pending("mutate", um.editingUser.id \in serverUsers, "update",
                            authUser.role)
    /\ UNCHANGED serverUsers
    /\ UNCHANGED <<notAuth, routeFrame, regFrame, um, umStale>>

\* handleDeleteUser, confirmed: DELETE /api/users/{id}.  The button is not
\* shown on the admin's own row, nor on a row being edited.
UserManagementDelete ==
    /\ tableShown
    /\ \E id \in um.users :
         /\ id # authUser.id
         /\ um.editingUser.id # id
         /\ lastReq' = Request("DELETE", "/api/users/{id}", "none", authUser.role)
         /\ umPending' = Pending("mutate", id \in serverUsers, "delete", authUser.role)
         /\ serverUsers' = serverUsers \ {id}
    /\ umIssued' = TRUE
    /\ UNCHANGED <<notAuth, routeFrame, regFrame, um, umStale>>

\* The application is opened at its home address (OpenUrl opens the others);
\* the backend holds the admin account that scripts/create_admin.py made.
InitAuth ==
    /\ authLoading = TRUE
    /\ authUser = NoUser
    /\ token = NoUser
    /\ path = "/"
    /\ view = Settled(path, TRUE, NoUser).view
    /\ redirected = FALSE
    /\ showRegister = FALSE
    /\ reg = RegistrationFormInit
    /\ regPending = "none"
    /\ regStale = FALSE
    /\ regBackTimer = FALSE
    /\ serverUsers = {1}
    /\ um = UserManagementInit
    /\ umPending = NoPending
    /\ umStale = {}
    /\ umIssued = FALSE
    /\ lastReq = NoRequest

NextAuth ==
    \/ AuthResolve
    \/ Login
    \/ Logout
    \/ Navigate
    \/ OpenUrl
    \/ ShowRegistration
    \/ RegistrationSelectRole
    \/ RegistrationTypePassword
    \/ RegistrationTypeConfirm
    \/ RegistrationSubmit
    \/ RegistrationResponse
    \/ RegistrationStaleResponse
    \/ RegistrationBack
    \/ UserManagementFetched
    \/ UserManagementAnswered
    \/ UserManagementStaleAnswered
    \/ UserManagementShowCreate
    \/ UserManagementCreateSelectRole
    \/ UserManagementCreateCancel
    \/ UserManagementCreateSubmit
    \/ UserManagementEdit
    \/ UserManagementEditSelectRole
    \/ UserManagementEditCancel
    \/ UserManagementEditSave
    \/ UserManagementDelete

(***************************************************************************)
(* 2. The approval workflow: design repository and production table        *)
(***************************************************************************)

MaxNames == 2
MaxContent == 2
MaxApprovedRows == 4

ConfigNames == 1..MaxNames
Contents == 1..MaxContent

NoConfig == [present |-> FALSE, content |-> 0, is_approved |-> FALSE]

NoOp == [op |-> "none", name |-> 0, existing |-> FALSE]

\* The rows of the production table that hold the config named n.
ApprovedRows(n) == {i \in 1..Len(approved) : approved[i].name = n}

\* POST /api/{type}/: a new design config, not approved.
CreateConfig ==
    /\ \E n \in ConfigNames, c \in Contents :
         /\ ~design[n].present
         /\ design' = [design EXCEPT ![n] = [present |-> TRUE, content |-> c,
                                              is_approved |-> FALSE]]
         /\ lastOp' = [op |-> "create", name |-> n, existing |-> FALSE]
    /\ UNCHANGED <<approved, notApproval>>

\* PUT /api/{type}/{id}: the design config's content is replaced.
EditConfig ==
    /\ \E n \in ConfigNames, c \in Contents :
         /\ design[n].present
         /\ c # design[n].content
         /\ design' = [design EXCEPT ![n].content = c]
         /\ lastOp' = [op |-> "edit", name |-> n, existing |-> FALSE]
    /\ UNCHANGED <<approved, notApproval>>

\* The production table after config n is approved with content c: the
\* existing row of that name is updated, or a row is added.
StoreApprovedAlwaysAdds(n, c) ==
    Append(approved, [name |-> n, content |-> c])

StoreApproved(n, c) ==
    IF ApprovedRows(n) # {}
    THEN [i \in 1..Len(approved) |->
             IF approved[i].name = n THEN [name |-> n, content |-> c]
             ELSE approved[i]]
    ELSE Append(approved, [name |-> n, content |-> c])

\* The content an approval copies: the design repository's, as it is now.
ApprovalSourceFirstSeen(n) ==
    IF ApprovedRows(n) # {}
    THEN approved[CHOOSE i \in ApprovedRows(n) : TRUE].content
    ELSE design[n].content

ApprovalSource(n) == design[n].content

\* POST /api/approval/{type}/{config_id}/approve.
ApproveConfig ==
    /\ Len(approved) < MaxApprovedRows
    /\ \E n \in ConfigNames :
         /\ design[n].present
         /\ approved' = StoreApproved(n, ApprovalSource(n))
         /\ design' = [design EXCEPT ![n].is_approved = TRUE]
         /\ lastOp' = [op |-> "approve", name |-> n,
                       existing |-> ApprovedRows(n) # {}]
    /\ UNCHANGED notApproval

InitApproval ==
    /\ design = [n \in ConfigNames |-> NoConfig]
    /\ approved = <<>>
    /\ lastOp = NoOp

NextApproval ==
    \/ CreateConfig
    \/ EditConfig
    \/ ApproveConfig

(***************************************************************************)
(* 3. The weapons designer: form, YAML preview, damage analysis            *)
(***************************************************************************)

MaxStyles == 1
MaxEffectors == 1
MaxStrikes == 2

WeaponNames == {"", "sword"}
StyleNames == {"slash", "burn"}
EffectorNames == {"blade"}
DamageValues == {0, 3}

\* WeaponForm's initial form state for the page's empty weapon config.
WeaponFormInit ==
    [name |-> "", effectors |-> <<>>, primary_effect_styles |-> <<>>,
     secondary_effect_styles |-> <<>>]

\* array.filter((_, i) => i !== index), the index counted from 1.
RemoveAt(s, index) ==
    [j \in 1..(Len(s) - 1) |-> IF j < index THEN s[j] ELSE s[j + 1]]

\* setFormData(f); the form's effect then hands the form state to the page:
\* onChange(formData) -> handleFormChange -> setWeaponConfig.
SetFormData(f) ==
    /\ formData' = f
    /\ weaponConfig' = f

\* updateField('name', value)
UpdateName ==
    /\ \E v \in WeaponNames :
         /\ v # formData.name
         /\ SetFormData([formData EXCEPT !.name = v])
    /\ UNCHANGED <<showStyleDesigner, styleDesignerMode, analysisVars, notWeapons>>

AddEffector ==
    /\ Len(formData.effectors) < MaxEffectors
    /\ \E e \in EffectorNames :
         SetFormData([formData EXCEPT !.effectors = Append(@, e)])
    /\ UNCHANGED <<showStyleDesigner, styleDesignerMode, analysisVars, notWeapons>>

RemoveEffector ==
    /\ \E i \in 1..Len(formData.effectors) :
         SetFormData([formData EXCEPT !.effectors = RemoveAt(@, i)])
    /\ UNCHANGED <<showStyleDesigner, styleDesignerMode, analysisVars, notWeapons>>

\* "+ Add Primary Effect Style" / "+ Add Secondary Effect Style"
OpenStyleDesigner ==
    /\ ~showStyleDesigner
    /\ \E mode \in {"primary", "secondary"} : styleDesignerMode' = mode
    /\ showStyleDesigner' = TRUE
    /\ UNCHANGED <<formData, weaponConfig, analysisVars, notWeapons>>

\* EffectStyleDesigner's onCancel
CloseStyleDesigner ==
    /\ showStyleDesigner
    /\ showStyleDesigner' = FALSE
    /\ UNCHANGED <<formData, weaponConfig, styleDesignerMode, analysisVars, notWeapons>>

\* handleAddEffectStyle, called by EffectStyleDesigner's onSave
AddEffectStyle ==
    /\ showStyleDesigner
    /\ \E style \in StyleNames :
         IF styleDesignerMode = "primary"
         THEN /\ Len(formData.primary_effect_styles) < MaxStyles
              /\ SetFormData([formData EXCEPT
                                  !.primary_effect_styles = Append(@, style)])
         ELSE /\ Len(formData.secondary_effect_styles) < MaxStyles
              /\ SetFormData([formData EXCEPT
                                  !.secondary_effect_styles = Append(@, style)])
    /\ showStyleDesigner' = FALSE
    /\ UNCHANGED <<styleDesignerMode, analysisVars, notWeapons>>

RemovePrimaryStyle ==
    /\ \E i \in 1..Len(formData.primary_effect_styles) :
         SetFormData([formData EXCEPT !.primary_effect_styles = RemoveAt(@, i)])
    /\ UNCHANGED <<showStyleDesigner, styleDesignerMode, analysisVars, notWeapons>>

RemoveSecondaryStyle ==
    /\ \E i \in 1..Len(formData.secondary_effect_styles) :
         SetFormData([formData EXCEPT !.secondary_effect_styles = RemoveAt(@, i)])
    /\ UNCHANGED <<showStyleDesigner, styleDesignerMode, analysisVars, notWeapons>>

\* YAMLPreview's yamlConfig, as the set of its keys with their values.  The
\* scalar fields are stood for by the name.
YAMLPreview(wc) ==
    {<<"name", wc.name>>, <<"item_type", "weapon">>}
        \cup (IF Len(wc.effectors) > 0 THEN {<<"effectors", wc.effectors>>} ELSE {})

InitForm ==
    /\ formData = WeaponFormInit
    /\ weaponConfig = WeaponFormInit
    /\ showStyleDesigner = FALSE
    /\ styleDesignerMode = "primary"

\* -- AnalysisTools

NoData == [damage_per_strike |-> <<>>]
NoAnalysis == [num_strikes |-> 0]
DefaultStrikes == 1
ConfigError == "Please configure the weapon"
FailedError == "Failed to run analysis"

\* The analyze endpoint's answers for n strikes: a damage for every strike.
\* The other fields of the answer follow from it (below).
BackendAnalysis(n) ==
    {[damage_per_strike |-> d] : d \in [1..n -> DamageValues]}

RECURSIVE SumTo(_, _)
SumTo(d, i) == IF i = 0 THEN 0 ELSE SumTo(d, i - 1) + d[i]

Strikes(data) == [i \in 1..Len(data.damage_per_strike) |-> i]
CumulativeDamage(data) ==
    [i \in 1..Len(data.damage_per_strike) |-> SumTo(data.damage_per_strike, i)]
DamageValuesOf(data) == data.damage_per_strike
MinDamage(data) ==
    CHOOSE v \in DamageValues :
        /\ \E i \in 1..Len(data.damage_per_strike) : data.damage_per_strike[i] = v
        /\ \A i \in 1..Len(data.damage_per_strike) : data.damage_per_strike[i] >= v
MaxDamage(data) ==
    CHOOSE v \in DamageValues :
        /\ \E i \in 1..Len(data.damage_per_strike) : data.damage_per_strike[i] = v
        /\ \A i \in 1..Len(data.damage_per_strike) : data.damage_per_strike[i] <= v

\* cumulativeData: a point for every strike.
CumulativeData(data) ==
    IF data = NoData THEN <<>>
    ELSE [i \in 1..Len(Strikes(data)) |->
             [strike |-> Strikes(data)[i], Overall |-> CumulativeDamage(data)[i]]]

NumBins == 20

\* The bin a value is counted in.  With max = min the bin size is 0 and
\* the index is NaN: the value is counted in no bin (-1 here).
BinIndex(value, min, max) ==
    IF max = min THEN -1
    ELSE LET q == ((value - min) * NumBins) \div (max - min)
         IN  IF q < NumBins - 1 THEN q ELSE NumBins - 1

\* distributionData: the counts of the bins, in order.
DistributionData(data) ==
    IF data = NoData \/ Len(DamageValuesOf(data)) = 0 THEN <<>>
    ELSE LET values == DamageValuesOf(data)
             min == MinDamage(data)
             max == MaxDamage(data)
             binOf == [i \in 1..Len(values) |-> BinIndex(values[i], min, max)]
         IN  [b \in 1..NumBins |->
                 Cardinality({i \in 1..Len(values) : binOf[i] = b - 1})]

AnalysisToolsInit ==
    /\ numStrikes' = DefaultStrikes
    /\ anLoading' = FALSE
    /\ anError' = ""
    /\ analysisData' = NoData
    /\ anPending' = NoAnalysis

\* PreviewTabs: the other tab is chosen.  The component of the tab left is
\* unmounted and its state is lost, so the answer to a request it awaits
\* sets nothing; the component of the tab chosen starts anew.
SetActiveTab ==
    /\ activeTab' = IF activeTab = "yaml" THEN "analysis" ELSE "yaml"
    /\ AnalysisToolsInit
    /\ UNCHANGED <<runs, formVars, notWeapons>>

\* The strikes input: parseInt(value) || 100.
SetNumStrikes ==
    /\ activeTab = "analysis"
    /\ \E n \in 1..MaxStrikes :
         /\ n # numStrikes
         /\ numStrikes' = n
    /\ UNCHANGED <<activeTab, anLoading, anError, analysisData, anPending, runs,
                   formVars, notWeapons>>

\* runAnalysis's guard in the legacy component: effectors only.
CanRunAnalysisLegacy(wc) ==
    /\ wc.name # ""
    /\ Len(wc.effectors) > 0

\* runAnalysis's guard.
CanRunAnalysis(wc) ==
    LET hasEffectStyles == \/ Len(wc.primary_effect_styles) > 0
                           \/ Len(wc.secondary_effect_styles) > 0
        hasEffectors == Len(wc.effectors) > 0
    IN  ~(wc.name = "" \/ (~hasEffectStyles /\ ~hasEffectors))

\* runAnalysis up to its await.  The button is disabled while loading.
RunAnalysis ==
    /\ activeTab = "analysis"
    /\ ~anLoading
    /\ runs' = 1 - runs
    /\ IF ~CanRunAnalysis(weaponConfig)
       THEN /\ anError' = ConfigError
            /\ UNCHANGED <<anLoading, anPending>>
       ELSE /\ anLoading' = TRUE
            /\ anError' = ""
            /\ anPending' = [num_strikes |-> numStrikes]
    /\ UNCHANGED <<activeTab, numStrikes, analysisData, formVars, notWeapons>>

\* The analysis data after the request is answered: the answer's, or none.
AnalysisDataAfterIgnoringFailure(ok, data) == data

AnalysisDataAfter(ok, data) == IF ok THEN data ELSE NoData

\* runAnalysis after its await: try, catch, finally.
AnalysisResponse ==
    /\ anPending # NoAnalysis
    /\ \E ok \in BOOLEAN, data \in BackendAnalysis(anPending.num_strikes) :
         /\ analysisData' = AnalysisDataAfter(ok, data)
         /\ anError' = IF ok THEN anError ELSE FailedError
    /\ anLoading' = FALSE
    /\ anPending' = NoAnalysis
    /\ UNCHANGED <<activeTab, numStrikes, runs, formVars, notWeapons>>

InitAnalysis ==
    /\ activeTab = "yaml"
    /\ numStrikes = DefaultStrikes
    /\ anLoading = FALSE
    /\ anError = ""
    /\ analysisData = NoData
    /\ anPending = NoAnalysis
    /\ runs = 0

NextWeapons ==
    \/ UpdateName
    \/ AddEffector
    \/ RemoveEffector
    \/ OpenStyleDesigner
    \/ CloseStyleDesigner
    \/ AddEffectStyle
    \/ RemovePrimaryStyle
    \/ RemoveSecondaryStyle
    \/ SetActiveTab
    \/ SetNumStrikes
    \/ RunAnalysis
    \/ AnalysisResponse

(***************************************************************************)
(* 4. The effect-style designer                                            *)
(***************************************************************************)

STYLE_TYPES == {"Physical", "Buff"}
EFFECTOR_TYPES == {"damage", "regenerative", "buff", "debuff", "process"}
DAMAGE_SUBTYPES == {"physical", "elemental"}
ELEMENTS == {"fire"}
DISTRIBUTION_TYPES == {"uniform", "gaussian", "skewnorm", "bimodal", "die_roll"}
StyleNameInputs == {"", "slash"}
SubtypeInputs == {"", "melee"}
ParamInputs == {"7"}

\* The widget's parameters of a distribution type newly chosen.
DefaultParams(type) ==
    CASE type = "uniform"  -> [min_val |-> "0", max_val |-> "10"]
      [] type = "gaussian" -> [mean |-> "10", std_dev |-> "2"]
      [] type = "skewnorm" -> [mean |-> "10", std_dev |-> "2", skew |-> "0"]
      [] type = "bimodal"  -> [mean1 |-> "5", std1 |-> "1", mean2 |-> "15",
                               std2 |-> "1", weight |-> "0.5"]
      [] type = "die_roll" -> [notation |-> "1d6"]
      [] OTHER -> <<>>

NoDistribution == [type |-> "", params |-> <<>>]

\* resetToDefaults: every field but the style type and the selection.
Defaults(styleType, selectionMode, selected) ==
    [styleType |-> styleType, selectionMode |-> selectionMode,
     selectedPreDesignedId |-> selected,
     name |-> "", subtype |-> "", effectorType |-> "damage",
     damageSubtype |-> "physical", elementType |-> "",
     distributionParams |-> [type |-> "uniform", params |-> DefaultParams("uniform")]]

EffectStyleDesignerInit == Defaults("", "custom", 0)

\* Styles of the library, as GET /api/effect-styles/ answers them: with
\* distribution parameters that name no params, with an effector that is no
\* damage, with no distribution parameters at all.
PreDesignedStyles ==
    {[id |-> 1, name |-> "cleave", subtype |-> "melee",
      effector_config |-> [effector_type |-> "damage", damage_subtype |-> "",
                           element_type |-> "",
                           distribution_parameters |->
                               [type |-> "gaussian", params |-> <<>>]]],
     [id |-> 2, name |-> "mend", subtype |-> "heal",
      effector_config |-> [effector_type |-> "regenerative", damage_subtype |-> "",
                           element_type |-> "",
                           distribution_parameters |->
                               [type |-> "uniform",
                                params |-> DefaultParams("uniform")]]],
     [id |-> 3, name |-> "scorch", subtype |-> "flame",
      effector_config |-> [effector_type |-> "damage", damage_subtype |-> "elemental",
                           element_type |-> "fire",
                           distribution_parameters |-> NoDistribution]]}

NoStyle == [name |-> ""]

OpenDesigner ==
    /\ ~esOpen
    /\ esOpen' = TRUE
    /\ es' = EffectStyleDesignerInit
    /\ esAlert' = ""
    /\ emitted' = NoStyle
    /\ UNCHANGED notStyle

CancelDesigner ==
    /\ esOpen
    /\ esOpen' = FALSE
    /\ esAlert' = ""
    /\ UNCHANGED <<es, emitted, notStyle>>

\* A change of the designer's form state.
SetStyle(f) ==
    /\ esOpen
    /\ es' = f
    /\ esAlert' = ""
    /\ UNCHANGED <<esOpen, emitted, notStyle>>

\* The style type select: setStyleType, resetToDefaults.
SetStyleType ==
    \E t \in STYLE_TYPES \cup {""} :
        /\ t # es.styleType
        /\ SetStyle(Defaults(t, es.selectionMode, es.selectedPreDesignedId))

\* The selection radios, shown once a style type is chosen.
SetSelectionMode ==
    /\ es.styleType # ""
    /\ \/ /\ es.selectionMode = "pre-designed"
          /\ SetStyle(Defaults(es.styleType, "custom", es.selectedPreDesignedId))
       \/ /\ es.selectionMode = "custom"
          /\ SetStyle([es EXCEPT !.selectionMode = "pre-designed"])

\* loadStyle
LoadStyle(f, style) ==
    LET effector == style.effector_config
    IN  [f EXCEPT
           !.name = style.name,
           !.subtype = style.subtype,
           !.effectorType = effector.effector_type,
           !.damageSubtype = IF effector.damage_subtype = "" THEN "physical"
                             ELSE effector.damage_subtype,
           !.elementType = effector.element_type,
           !.distributionParams =
               IF effector.distribution_parameters # NoDistribution
               THEN effector.distribution_parameters
               ELSE @]

\* The pre-designed select, shown when the library's styles have arrived;
\* the effect on selectedPreDesignedId loads the style chosen.
SelectPreDesigned ==
    /\ es.selectionMode = "pre-designed"
    /\ es.styleType # ""
    /\ \/ \E style \in PreDesignedStyles :
             /\ style.id # es.selectedPreDesignedId
             /\ SetStyle(LoadStyle([es EXCEPT !.selectedPreDesignedId = style.id],
                                    style))
       \/ /\ es.selectedPreDesignedId # 0
          /\ SetStyle([es EXCEPT !.selectedPreDesignedId = 0])

SetStyleName ==
    \E v \in StyleNameInputs : v # es.name /\ SetStyle([es EXCEPT !.name = v])

SetSubtype ==
    \E v \in SubtypeInputs : v # es.subtype /\ SetStyle([es EXCEPT !.subtype = v])

SetEffectorType ==
    \E t \in EFFECTOR_TYPES :
        t # es.effectorType /\ SetStyle([es EXCEPT !.effectorType = t])

\* The damage inputs and the distribution widget are rendered for the
\* effector type damage only.
SetDamageSubtype ==
    /\ es.effectorType = "damage"
    /\ \E t \in DAMAGE_SUBTYPES :
         /\ t # es.damageSubtype
         /\ SetStyle([es EXCEPT !.damageSubtype = t,
                                 !.elementType = IF t = "physical" THEN "" ELSE @])

SetElementType ==
    /\ es.effectorType = "damage"
    /\ es.damageSubtype = "elemental"
    /\ \E e \in ELEMENTS \cup {""} :
         e # es.elementType /\ SetStyle([es EXCEPT !.elementType = e])

\* DistributionParameterWidget: the type select.
SetDistributionType ==
    /\ es.effectorType = "damage"
    /\ \E t \in DISTRIBUTION_TYPES :
         /\ t # es.distributionParams.type
         /\ SetStyle([es EXCEPT !.distributionParams =
                                     [type |-> t, params |-> DefaultParams(t)]])

\* DistributionParameterWidget.updateParam
UpdateParam ==
    /\ es.effectorType = "damage"
    /\ \E key \in DOMAIN es.distributionParams.params, value \in ParamInputs :
         /\ es.distributionParams.params[key] # value
         /\ SetStyle([es EXCEPT !.distributionParams.params[key] = value])

\* handleSave: whether the effector config is given distribution parameters.
HasDistributionAlways(effectorType) == TRUE

HasDistribution(effectorType) == effectorType = "damage"

\* handleSave: the effector config built.
EffectorConfig(f) ==
    [effector_type |-> f.effectorType, effector_name |-> <<f.name, "_effector">>]
        @@ (IF f.effectorType = "damage"
            THEN [damage_subtype |-> f.damageSubtype]
                     @@ (IF f.damageSubtype = "elemental"
                         THEN [element_type |-> f.elementType] ELSE <<>>)
            ELSE <<>>)
        @@ (IF HasDistribution(f.effectorType)
            THEN [distribution_parameters |-> f.distributionParams] ELSE <<>>)

\* handleSave.  With a pre-designed style selected the style is also PUT to
\* the library; the answer changes nothing here.
HandleSave ==
    /\ esOpen
    /\ IF es.name = "" \/ es.subtype = "" \/ es.styleType = ""
       THEN /\ esAlert' = "Please fill in name, subtype, and style type"
            /\ UNCHANGED <<esOpen, emitted>>
       ELSE IF /\ es.effectorType = "damage"
               /\ es.damageSubtype = "elemental"
               /\ es.elementType = ""
       THEN /\ esAlert' = "Please select an element type for elemental damage"
            /\ UNCHANGED <<esOpen, emitted>>
       ELSE /\ emitted' = [name |-> es.name, style_type |-> es.styleType,
                           subtype |-> es.subtype, effector |-> EffectorConfig(es)]
            /\ esOpen' = FALSE
            /\ esAlert' = ""
    /\ UNCHANGED <<es, notStyle>>

InitStyle ==
    /\ esOpen = FALSE
    /\ es = EffectStyleDesignerInit
    /\ esAlert = ""
    /\ emitted = NoStyle

NextStyle ==
    \/ OpenDesigner
    \/ CancelDesigner
    \/ SetStyleType
    \/ SetSelectionMode
    \/ SelectPreDesigned
    \/ SetStyleName
    \/ SetSubtype
    \/ SetEffectorType
    \/ SetDamageSubtype
    \/ SetElementType
    \/ SetDistributionType
    \/ UpdateParam
    \/ HandleSave

(***************************************************************************)
(* 5. Collaboration notes                                                  *)
(***************************************************************************)

MaxPosts == 2

\* Two designers, each with a browser of their own.
Designers == {"ana", "ben"}

\* A note's text, by the designers whose words it holds.  A designer who
\* types adds words and removes none.
Texts == SUBSET Designers
NoText == {}

NoTimer == [armed |-> FALSE, content |-> NoText]
Timer(content) == [armed |-> TRUE, content |-> content]

\* POST /api/collaboration/notes/{designerType} {content}
Post(by, content) == [by |-> by, content |-> content]

\* NotesButton: the panel is opened; the mount effect loads the note.
OpenNotes(d) ==
    /\ ~panel[d]
    /\ panel' = [panel EXCEPT ![d] = TRUE]
    /\ notes' = [notes EXCEPT ![d] = NoText]
    /\ noteLoading' = [noteLoading EXCEPT ![d] = TRUE]
    /\ UNCHANGED <<timer, posts, noteServer, notNotes>>

\* loadNote after its await: the note's content, or on failure nothing.
NoteLoaded(d) ==
    /\ noteLoading[d]
    /\ noteLoading' = [noteLoading EXCEPT ![d] = FALSE]
    /\ \E ok \in BOOLEAN :
         notes' = IF ok THEN [notes EXCEPT ![d] = noteServer] ELSE notes
    /\ UNCHANGED <<panel, timer, posts, noteServer, notNotes>>

\* The panel is closed: its state is lost.  Its timer is not cleared and
\* its requests are not withdrawn; their answers set nothing.
CloseNotes(d) ==
    /\ panel[d]
    /\ posts' = IF timer[d].armed THEN posts \cup {Post(d, timer[d].content)}
                ELSE posts
    /\ Cardinality(posts') <= MaxPosts
    /\ panel' = [panel EXCEPT ![d] = FALSE]
    /\ notes' = [notes EXCEPT ![d] = NoText]
    /\ noteLoading' = [noteLoading EXCEPT ![d] = FALSE]
    /\ timer' = [timer EXCEPT ![d] = NoTimer]
    /\ UNCHANGED <<noteServer, notNotes>>

\* saveNote: the category's timer is cleared and a new timer armed that
\* will POST the content given.  (The saving indicator is not modelled.)
SaveNote(d, content) ==
    timer' = [timer EXCEPT ![d] = Timer(content)]

\* handleContentChange: the designer types into the textarea.
HandleContentChange(d) ==
    /\ panel[d]
    /\ d \notin notes[d]
    /\ notes' = [notes EXCEPT ![d] = @ \cup {d}]
    /\ SaveNote(d, notes[d] \cup {d})
    /\ UNCHANGED <<panel, noteLoading, posts, noteServer, notNotes>>

\* The textarea's onBlur: the timer is cleared and saveNote called.
NoteBlur(d) ==
    /\ panel[d]
    /\ SaveNote(d, notes[d])
    /\ UNCHANGED <<panel, notes, noteLoading, posts, noteServer, notNotes>>

\* The timer's callback up to its await: the POST is sent.
TimerFires(d) ==
    /\ timer[d].armed
    /\ posts' = posts \cup {Post(d, timer[d].content)}
    /\ Cardinality(posts') <= MaxPosts
    /\ timer' = [timer EXCEPT ![d] = NoTimer]
    /\ UNCHANGED <<panel, notes, noteLoading, noteServer, notNotes>>

\* The backend stores the content posted.
StoreNote(note, content) == content

\* A POST is handled: stored, or refused.
PostHandled ==
    /\ \E p \in posts, ok \in BOOLEAN :
         /\ posts' = posts \ {p}
         /\ noteServer' = IF ok THEN StoreNote(noteServer, p.content) ELSE noteServer
    /\ UNCHANGED <<panel, notes, noteLoading, timer, notNotes>>

InitNotes ==
    /\ noteServer = NoText
    /\ panel = [d \in Designers |-> FALSE]
    /\ notes = [d \in Designers |-> NoText]
    /\ noteLoading = [d \in Designers |-> FALSE]
    /\ timer = [d \in Designers |-> NoTimer]
    /\ posts = {}

NextNotes ==
    \/ \E d \in Designers : OpenNotes(d)
    \/ \E d \in Designers : NoteLoaded(d)
    \/ \E d \in Designers : CloseNotes(d)
    \/ \E d \in Designers : HandleContentChange(d)
    \/ \E d \in Designers : NoteBlur(d)
    \/ \E d \in Designers : TimerFires(d)
    \/ PostHandled

(***************************************************************************)
(* 6. A designer page and its form, render by render                       *)
(***************************************************************************)

MaxPageEvents == 3
MaxRuns == 3

\* WeaponsDesigner, SkillsDesigner, SpellsDesigner
PageKinds == {"weapons", "skills", "spells"}

PageNames == {"", "axe", "bow"}

\* createDefaultAffinities(): every element 1.0.  The affinities and the
\* detriments are stood for by one element's affinity.
DefaultAffinities == 1
AffinityValues == {1, 2}

\* A state value is an object: setState compares identities (Object.is).
Obj(ref, data) == [ref |-> ref, data |-> data]
Refs == 0..3
Cbs == 0..2

NoDeps == [form |-> -1, cb |-> -1]
NoLoad == [pending |-> FALSE]
NoSave == [saved |-> FALSE]
NoEvent == [kind |-> "none"]

\* The config the page's useState starts with.
PageInit(k) == [name |-> "", affinities |-> DefaultAffinities]

\* The form's useState initial value, from the initialData prop.  SpellForm's
\* form data has no affinities and no detriments.
FormInit(k, initialData) ==
    IF k = "spells"
    THEN [name |-> initialData.name]
    ELSE [name |-> initialData.name,
          affinities |-> IF "affinities" \in DOMAIN initialData
                         THEN initialData.affinities
                         ELSE DefaultAffinities]

\* The configs GET /api/{kind}/load-config/{name} answers with.
SavedConfigs(k) ==
    {[name |-> "axe", affinities |-> 2], [name |-> "bow", affinities |-> 1]}

\* An object that is none of those the page, the form and the effect hold.
FreshRef == CHOOSE r \in Refs : r \notin {pgConfig.ref, pgForm.ref, pgDeps.form}

\* The function a new render of the page creates for handleFormChange.
FreshCb == CHOOSE c \in Cbs : c \notin {pgCb, pgDeps.cb}

\* The page is opened: it renders with its initial config, the form takes
\* its initial values from it, and the form's effect is yet to run.
MountPage ==
    /\ pgKind = "none"
    /\ \E k \in PageKinds :
         /\ pgKind' = k
         /\ pgConfig' = Obj(0, PageInit(k))
         /\ pgForm' = Obj(1, FormInit(k, PageInit(k)))
         /\ pgEvent' = [kind |-> "mount", data |-> PageInit(k)]
    /\ pgCb' = 0
    /\ pgDeps' = NoDeps
    /\ pgRuns' = 0
    /\ pgEvents' = pgEvents + 1
    /\ UNCHANGED <<pgLoad, pgSaved, notPages>>

\* A page whose handler stored a copy of the data: every call re-renders.
SetConfigCopy(obj) ==
    /\ pgConfig' = Obj(FreshRef, obj.data)
    /\ pgCb' = FreshCb

\* handleFormChange(data): setWeaponConfig(data).  Setting the state to the
\* object it already is bails out; otherwise the page renders again, with a
\* new handleFormChange.
SetConfig(obj) ==
    IF obj.ref = pgConfig.ref
    THEN UNCHANGED <<pgConfig, pgCb>>
    ELSE /\ pgConfig' = obj
         /\ pgCb' = FreshCb

Quiescent == pgKind # "none" => pgDeps = [form |-> pgForm.ref, cb |-> pgCb]

\* useEffect(() => { onChange(formData) }, [formData, onChange])
FormEffect ==
    /\ pgKind # "none"
    /\ ~Quiescent
    /\ SetConfig(pgForm)
    /\ pgDeps' = [form |-> pgForm.ref, cb |-> pgCb]
    /\ pgRuns' = IF pgRuns < MaxRuns THEN pgRuns + 1 ELSE pgRuns
    /\ UNCHANGED <<pgKind, pgForm, pgEvent, pgLoad, pgEvents, pgSaved, notPages>>

\* setFormData((prev) => ({...prev, ...})): a new object.
SetPageFormData(data) ==
    /\ pgForm' = Obj(FreshRef, data)
    /\ pgEvent' = [kind |-> "edit", data |-> data]
    /\ pgRuns' = 0
    /\ pgEvents' = pgEvents + 1
    /\ UNCHANGED <<pgKind, pgConfig, pgCb, pgDeps, pgLoad, pgSaved, notPages>>

\* updateField('name', value)
UpdateField ==
    /\ pgKind # "none"
    /\ pgEvents < MaxPageEvents
    /\ \E v \in PageNames \ {pgForm.data.name} :
         SetPageFormData([pgForm.data EXCEPT !.name = v])

\* updateAffinity of WeaponForm and SkillForm; SpellForm has none.
UpdateAffinity ==
    /\ pgKind \in {"weapons", "skills"}
    /\ pgEvents < MaxPageEvents
    /\ \E v \in AffinityValues \ {pgForm.data.affinities} :
         SetPageFormData([pgForm.data EXCEPT !.affinities = v])

\* handleLoadConfig up to its await
LoadConfig ==
    /\ pgKind # "none"
    /\ ~pgLoad.pending
    /\ pgEvents < MaxPageEvents
    /\ \E c \in SavedConfigs(pgKind) : pgLoad' = [pending |-> TRUE, config |-> c]
    /\ pgEvents' = pgEvents + 1
    /\ UNCHANGED <<pgKind, pgConfig, pgForm, pgCb, pgDeps, pgRuns, pgEvent, pgSaved,
                   notPages>>

\* handleLoadConfig after its await: setWeaponConfig(loadedConfig), or the
\* catch, which sets nothing.
LoadResponse ==
    /\ pgLoad.pending
    /\ pgLoad' = NoLoad
    /\ \E ok \in BOOLEAN :
         IF ok
         THEN /\ pgConfig' = Obj(FreshRef, pgLoad.config)
              /\ pgCb' = FreshCb
              /\ pgEvent' = [kind |-> "load", data |-> pgLoad.config]
              /\ pgRuns' = 0
         ELSE UNCHANGED <<pgConfig, pgCb, pgEvent, pgRuns>>
    /\ UNCHANGED <<pgKind, pgForm, pgDeps, pgEvents, pgSaved, notPages>>

\* handleSave: the page's config is posted when it has a name.
SavePage ==
    /\ pgKind # "none"
    /\ pgConfig.data.name # ""
    /\ pgSaved' = [saved |-> TRUE, config |-> pgConfig.data]
    /\ pgSaved' # pgSaved
    /\ UNCHANGED <<pgKind, pgConfig, pgForm, pgCb, pgDeps, pgRuns, pgEvent, pgLoad,
                   pgEvents, notPages>>

\* The spells YAMLPreview's yamlConfig, as the set of its keys with their
\* values: the affinities and detriments only if the config has them.
SpellYAMLPreview(cfg) ==
    {<<"name", cfg.name>>, <<"item_type", "spell">>}
        \cup (IF "affinities" \in DOMAIN cfg
              THEN {<<"affinities", cfg.affinities>>} ELSE {})

InitPages ==
    /\ pgKind = "none"
    /\ pgConfig = Obj(0, PageInit("weapons"))
    /\ pgForm = Obj(1, FormInit("weapons", PageInit("weapons")))
    /\ pgCb = 0
    /\ pgDeps = NoDeps
    /\ pgRuns = 0
    /\ pgEvent = NoEvent
    /\ pgLoad = NoLoad
    /\ pgEvents = 0
    /\ pgSaved = NoSave

NextPages ==
    \/ MountPage
    \/ FormEffect
    \/ UpdateField
    \/ UpdateAffinity
    \/ LoadConfig
    \/ LoadResponse
    \/ SavePage

(***************************************************************************)
(* 7. One browser's collaboration panel: tabs and debounced saves          *)
(***************************************************************************)

MaxPanelEvents == 5

\* setTimeout(..., 500): the debounce delay, in ticks of the clock.
Delay == 2

\* Two of DESIGNER_TABS.
Tabs == {"weapons", "skills"}

\* The tab NotesButton opens the panel at: the page's designerType.
InitialTab == "weapons"

\* The empty text; the text an edit leaves is named by the edit's number.
EmptyText == 0

NoRefs == [tab \in Tabs |-> 0]
NoStep == [step |-> "none", tab |-> InitialTab]
Step(step, tab) == [step |-> step, tab |-> tab]

\* The content the backend holds for a tab: the content posted last.
ServerText(tab) ==
    LET ks == {k \in 1..Len(caPosts) : caPosts[k].tab = tab}
    IN  IF ks = {} THEN EmptyText
        ELSE caPosts[CHOOSE k \in ks : \A j \in ks : j <= k].content

\* NotesButton: setShowNotes(true).  A new CollaborationArea is mounted, with
\* empty notes and an empty saveTimeoutRef; its mount effect loads every tab.
OpenPanel ==
    /\ ~caMounted
    /\ caEvents < MaxPanelEvents
    /\ caMounted' = TRUE
    /\ caInst' = caInst + 1
    /\ caTab' = InitialTab
    /\ caNotes' = [tab \in Tabs |-> EmptyText]
    /\ caLoading' = Tabs
    /\ caRef' = NoRefs
    /\ caEvents' = caEvents + 1
    /\ caLast' = Step("open", InitialTab)
    /\ UNCHANGED <<caTimers, caIds, caPosts, caCalls, notPanel>>

\* loadNote after its await: the tab's note is set, or on failure nothing.
PanelNoteLoaded ==
    /\ \E tab \in caLoading, ok \in BOOLEAN :
         /\ caLoading' = caLoading \ {tab}
         /\ caNotes' = IF ok THEN [caNotes EXCEPT ![tab] = ServerText(tab)]
                       ELSE caNotes
         /\ caLast' = Step("load", tab)
    /\ UNCHANGED <<caMounted, caInst, caTab, caRef, caTimers, caIds, caPosts,
                   caCalls, caEvents, notPanel>>

\* A panel that cleared its timers when it was unmounted.
TimersAfterCloseCleared(inst) == {t \in caTimers : t.inst # inst}

\* CollaborationArea has no cleanup: the timers of the instance that is
\* unmounted stay pending.
TimersAfterClose(inst) == caTimers

\* onClose: setShowNotes(false).  The panel's state and its ref are lost.
ClosePanel ==
    /\ caMounted
    /\ caEvents < MaxPanelEvents
    /\ caMounted' = FALSE
    /\ caNotes' = [tab \in Tabs |-> EmptyText]
    /\ caLoading' = {}
    /\ caRef' = NoRefs
    /\ caTimers' = TimersAfterClose(caInst)
    /\ caEvents' = caEvents + 1
    /\ caLast' = Step("close", caTab)
    /\ UNCHANGED <<caInst, caTab, caIds, caPosts, caCalls, notPanel>>

\* A tab button: setActiveTab(tab.id)
SetPanelTab ==
    /\ caMounted
    /\ caEvents < MaxPanelEvents
    /\ \E tab \in Tabs \ {caTab} :
         /\ caTab' = tab
         /\ caLast' = Step("tab", tab)
    /\ caEvents' = caEvents + 1
    /\ UNCHANGED <<caMounted, caInst, caNotes, caLoading, caRef, caTimers, caIds,
                   caPosts, caCalls, notPanel>>

NewTimer(tab, content) ==
    [id |-> caIds + 1, inst |-> caInst, tab |-> tab, content |-> content,
     left |-> Delay]

\* clearTimeout(saveTimeoutRef.current[tab])
ClearTimeout(timers, id) == {t \in timers : t.id # id}

\* A saveNote that does not clear the tab's timer.
TimersAfterSaveNoClear(tab, content) == caTimers \cup {NewTimer(tab, content)}

TimersAfterSave(tab, content) ==
    ClearTimeout(caTimers, caRef[tab]) \cup {NewTimer(tab, content)}

\* saveNote(designerType, content): the tab's timer is cleared, and a timer
\* that will POST the content after the delay is armed and kept in the ref.
PanelSaveNote(tab, content) ==
    /\ caTimers' = TimersAfterSave(tab, content)
    /\ caRef' = [caRef EXCEPT ![tab] = caIds + 1]
    /\ caIds' = caIds + 1
    /\ caCalls' = caCalls \cup {[id |-> caIds + 1, inst |-> caInst, tab |-> tab,
                                 content |-> content]}

\* handleContentChange(activeTab, value): the designer types.
PanelContentChange ==
    /\ caMounted
    /\ caEvents < MaxPanelEvents
    /\ caNotes' = [caNotes EXCEPT ![caTab] = caEvents + 1]
    /\ PanelSaveNote(caTab, caEvents + 1)
    /\ caEvents' = caEvents + 1
    /\ caLast' = Step("edit", caTab)
    /\ UNCHANGED <<caMounted, caInst, caTab, caLoading, caPosts, notPanel>>

\* The textarea's onBlur: clearTimeout, then saveNote(activeTab,
\* notes[activeTab] || '').
PanelBlur ==
    /\ caMounted
    /\ caEvents < MaxPanelEvents
    /\ PanelSaveNote(caTab, caNotes[caTab])
    /\ caEvents' = caEvents + 1
    /\ caLast' = Step("blur", caTab)
    /\ UNCHANGED <<caMounted, caInst, caTab, caNotes, caLoading, caPosts, notPanel>>

\* Time passes; a timer that is due runs before more time passes.
Tick ==
    /\ caTimers # {}
    /\ \A t \in caTimers : t.left > 0
    /\ caTimers' = {[t EXCEPT !.left = @ - 1] : t \in caTimers}
    /\ caLast' = Step("tick", caTab)
    /\ UNCHANGED <<caMounted, caInst, caTab, caNotes, caLoading, caRef, caIds,
                   caPosts, caCalls, caEvents, notPanel>>

\* A timer's callback: axios.post(.../notes/{designerType}, {content}).
PanelTimerFires ==
    /\ \E t \in caTimers :
         /\ t.left = 0
         /\ caTimers' = caTimers \ {t}
         /\ caPosts' = Append(caPosts, [tab |-> t.tab, content |-> t.content,
                                        timer |-> t.id, inst |-> t.inst])
         /\ caLast' = Step("fire", t.tab)
    /\ UNCHANGED <<caMounted, caInst, caTab, caNotes, caLoading, caRef, caIds,
                   caCalls, caEvents, notPanel>>

InitPanel ==
    /\ caMounted = FALSE
    /\ caInst = 0
    /\ caTab = InitialTab
    /\ caNotes = [tab \in Tabs |-> EmptyText]
    /\ caLoading = {}
    /\ caRef = NoRefs
    /\ caTimers = {}
    /\ caIds = 0
    /\ caPosts = <<>>
    /\ caCalls = {}
    /\ caEvents = 0
    /\ caLast = NoStep

NextPanel ==
    \/ OpenPanel
    \/ PanelNoteLoaded
    \/ ClosePanel
    \/ SetPanelTab
    \/ PanelContentChange
    \/ PanelBlur
    \/ Tick
    \/ PanelTimerFires

(***************************************************************************)
(* 8. The die-roll preview: parseDieNotation, calculateDiceProbabilities   *)
(***************************************************************************)

MaxDice == 4
MaxSides == 6

\* parseInt's NaN
NaN == -1

\* A notation, split at "d": its parts as parseInt reads them.
Notations ==
    {<<n>> : n \in {2}} \cup
    {<<n, m>> : n \in {NaN} \cup (0..MaxDice), m \in {NaN} \cup (0..MaxSides)} \cup
    {<<n, m, k>> : n \in {1}, m \in {2}, k \in {3}}

NoParse == [numDice |-> 0, numSides |-> 0]

parseDieNotation(parts) ==
    IF Len(parts) # 2 THEN NoParse
    ELSE IF parts[1] = NaN \/ parts[2] = NaN \/ parts[1] < 1 \/ parts[2] < 1
         THEN NoParse
         ELSE [numDice |-> parts[1], numSides |-> parts[2]]

\* Math.pow(numSides, numDice)
RECURSIVE Pow(_, _)
Pow(b, e) == IF e = 0 THEN 1 ELSE b * Pow(b, e - 1)

\* The sum of f over the set S of its arguments.
RECURSIVE SumOver(_, _)
SumOver(f, S) ==
    IF S = {} THEN 0
    ELSE LET x == CHOOSE y \in S : TRUE IN f[x] + SumOver(f, S \ {x})

\* A die whose sides are counted from 0.
SidesFromZero(numSides) == 0..(numSides - 1)

\* for (let side = 1; side <= numSides; side++)
Sides(numSides) == 1..numSides

\* One pass of the loop over the dice: every sum so far, with every side,
\* adds its count to the count of the new sum.
NextWays(ways, numSides) ==
    LET newSums == {sum + side : sum \in DOMAIN ways, side \in Sides(numSides)}
    IN  [newSum \in newSums |->
            SumOver(ways, {sum \in DOMAIN ways : newSum - sum \in Sides(numSides)})]

NoWays == [sum \in {} |-> 0]
DiceIdle == [phase |-> "idle", notation |-> <<>>, numDice |-> 0, numSides |-> 0,
             die |-> 0, ways |-> NoWays, probabilities |-> NoWays]

\* The designer enters a die notation: it is parsed, and when it is one,
\* calculateDiceProbabilities starts with ways = {0: 1}.
EnterNotation ==
    /\ dice.phase \in {"idle", "done"}
    /\ \E notation \in Notations :
         LET parsed == parseDieNotation(notation)
         IN  dice' = IF parsed = NoParse
                     THEN [DiceIdle EXCEPT !.notation = notation]
                     ELSE [phase |-> "loop", notation |-> notation,
                           numDice |-> parsed.numDice, numSides |-> parsed.numSides,
                           die |-> 0, ways |-> [sum \in {0} |-> 1],
                           probabilities |-> NoWays]
    /\ dice' # dice
    /\ UNCHANGED notDice

\* for (let die = 0; die < numDice; die++) { ... ways = nextWays }
DieStep ==
    /\ dice.phase = "loop"
    /\ dice.die < dice.numDice
    /\ dice' = [dice EXCEPT !.ways = NextWays(dice.ways, dice.numSides),
                            !.die = @ + 1]
    /\ UNCHANGED notDice

\* probabilities.set(sum, count / totalOutcomes): the quotient is kept as
\* the pair of its numerator and its denominator.
Probabilities(ways, totalOutcomes) ==
    [sum \in DOMAIN ways |-> <<ways[sum], totalOutcomes>>]

DiceDone ==
    /\ dice.phase = "loop"
    /\ dice.die = dice.numDice
    /\ dice' = [dice EXCEPT
                   !.phase = "done",
                   !.probabilities =
                       Probabilities(dice.ways, Pow(dice.numSides, dice.numDice))]
    /\ UNCHANGED notDice

InitDice == dice = DiceIdle

NextDice ==
    \/ EnterNotation
    \/ DieStep
    \/ DiceDone

(***************************************************************************)
(* Specifications                                                          *)
(***************************************************************************)

InitAll ==
    /\ InitAuth
    /\ InitApproval
    /\ InitForm
    /\ InitAnalysis
    /\ InitStyle
    /\ InitNotes
    /\ InitPages
    /\ InitPanel
    /\ InitDice

SpecAuth == InitAll /\ [][NextAuth]_vars

SpecApproval == InitAll /\ [][NextApproval]_vars

SpecWeapons == InitAll /\ [][NextWeapons]_vars

SpecStyle == InitAll /\ [][NextStyle]_vars

SpecNotes == InitAll /\ [][NextNotes]_vars

SpecPages == InitAll /\ [][NextPages]_vars

\* The form's effect runs after every render that changed its dependencies.
SpecPagesFair == SpecPages /\ WF_vars(FormEffect)

SpecPanel == InitAll /\ [][NextPanel]_vars

\* Time passes, and a timer that is due runs.
SpecPanelFair == SpecPanel /\ WF_vars(Tick) /\ WF_vars(PanelTimerFires)

SpecDice == InitAll /\ [][NextDice]_vars

elevatedRoles == {"admin", "designer"}
usersUrls == {"/api/users/", "/api/users/{id}"}

\* C1, as stated: every register request carries the role player or viewer,
\* and a request that carries the role designer or admin is an admin's user
\* update (the PUT of the user-management page).
C1_ElevatedRoleOnlyByUpdate ==
    /\ lastReq.url = "/api/auth/register" => lastReq.role \in {"player", "viewer"}
    /\ lastReq.role \in elevatedRoles =>
           /\ lastReq.method = "PUT"
           /\ lastReq.url = "/api/users/{id}"
           /\ lastReq.by = "admin"

\* C1, amended: every register request carries the role player or viewer,
\* and a request that carries the role designer or admin is sent by the
\* user-management page of an admin: its user update (PUT) or its user
\* creation (POST).
C1_ElevatedRoleOnlyByAdmin ==
    /\ lastReq.url = "/api/auth/register" => lastReq.role \in {"player", "viewer"}
    /\ lastReq.role \in elevatedRoles =>
           /\ lastReq.method \in {"PUT", "POST"}
           /\ lastReq.url \in usersUrls
           /\ lastReq.by = "admin"

\* A registration with the role changed to viewer has been sent.
C1_Witness ==
    /\ lastReq = Request("POST", "/api/auth/register", "viewer", "none")
    /\ regPending = "ok"

\* C2: the user-management page shows its loading state or its table (list,
\* create, update, delete) only to an admin; for any other user it shows the
\* access-denied message, holds no user list and has sent no /api/users
\* request; every /api/users request comes from a page shown to an admin.
C2_UserManagementAdminOnly ==
    /\ umView \in {"loading", "table"} => authUser.role = "admin"
    /\ (view = "usermgmt" /\ authUser.role # "admin") =>
           /\ umView = "denied"
           /\ ~umIssued
           /\ umPending = NoPending
           /\ um.users = {}
    /\ lastReq.url \in usersUrls => lastReq.by = "admin"

\* A signed-in user who is no admin is on the user-management page.
C2_Witness ==
    /\ view = "usermgmt"
    /\ authUser.role = "designer"
    /\ umView = "denied"

\* C3: the designer and admin pages are rendered only when authentication
\* has settled on a user; while it is loading a protected route renders the
\* loading placeholder; with no user the location is sent back to "/".
C3_ProtectedPagesNeedUser ==
    /\ view \in {"designer", "usermgmt"} => (~authLoading /\ authUser # NoUser)
    /\ (path \in {"/designer", "/admin/users"} /\ authLoading) => view = "loading"
    /\ (path \in {"/designer", "/admin/users"} /\ ~authLoading) => authUser # NoUser
    /\ (~authLoading /\ authUser = NoUser) => view \in {"login", "about"}
    /\ redirected => (path = "/" /\ view = "login" /\ authUser = NoUser)

\* Authentication has settled on no user at a protected address: the route
\* has redirected, and the login form is shown at "/".
C3_Witness ==
    /\ redirected
    /\ ~authLoading
    /\ authUser = NoUser
    /\ view = "login"

\* The content the production table t holds for the name n, 0 when none.
ContentIn(t, n) ==
    IF \E i \in 1..Len(t) : t[i].name = n
    THEN t[CHOOSE i \in 1..Len(t) : t[i].name = n].content
    ELSE 0

ApprovedContent(n) == ContentIn(approved, n)

\* C4: the production table holds at most one approved config per name.
C4_OneApprovedPerName ==
    \A n \in ConfigNames : Cardinality(ApprovedRows(n)) <= 1

\* A config has been approved again, after an edit, and its name has one row
\* that holds the edited content.
C4_Witness ==
    /\ lastOp.op = "approve"
    /\ lastOp.existing
    /\ Cardinality(ApprovedRows(lastOp.name)) = 1
    /\ Len(approved) = 2

\* C5: a step that changes the production table is an approval, so an edit
\* of the design config leaves the approved content as it was; and after an
\* approval the approved config of that name holds the content the design
\* repository held for it at that moment, the others what they held.
C5_ApprovedIsSnapshot ==
    [][/\ approved' # approved => lastOp'.op = "approve"
       /\ lastOp'.op = "approve" =>
              \A n \in ConfigNames :
                  ContentIn(approved', n) =
                      IF n = lastOp'.name THEN design[n].content
                      ELSE ContentIn(approved, n)]_vars

\* An approved config whose design config has been edited since: the two
\* contents differ.
C5_Witness ==
    \E n \in ConfigNames :
        /\ design[n].present
        /\ design[n].is_approved
        /\ lastOp = [op |-> "edit", name |-> n, existing |-> FALSE]
        /\ ApprovedContent(n) # 0
        /\ ApprovedContent(n) # design[n].content

\* The guard of Run Analysis as stated: a name, and a primary or secondary
\* effect style or a legacy effector.
configured ==
    /\ weaponConfig.name # ""
    /\ \/ Len(weaponConfig.primary_effect_styles) > 0
       \/ Len(weaponConfig.secondary_effect_styles) > 0
       \/ Len(weaponConfig.effectors) > 0

\* C6 as stated: a run with a configured weapon produces the cumulative and
\* histogram series in the browser, and no request to the backend is awaited.
C6_SeriesWithoutBackend ==
    [][runs' # runs /\ configured =>
          /\ anPending' = NoAnalysis
          /\ CumulativeData(analysisData') # <<>>
          /\ DistributionData(analysisData') # <<>>]_vars

\* The series shown for the analysis data d: a cumulative point per strike,
\* and NumBins histogram bins that count every damage value, or none of them
\* when all values are equal.
seriesOf(d) ==
    LET cumulative == CumulativeData(d)
        distribution == DistributionData(d)
    IN  /\ Len(cumulative) = Len(d.damage_per_strike)
        /\ \A i \in 1..Len(d.damage_per_strike) :
              cumulative[i] = [strike |-> i, Overall |-> SumTo(d.damage_per_strike, i)]
        /\ Len(distribution) = NumBins
        /\ SumTo(distribution, NumBins) =
              IF \A i, j \in 1..Len(d.damage_per_strike) :
                     d.damage_per_strike[i] = d.damage_per_strike[j]
              THEN 0 ELSE Len(d.damage_per_strike)

\* C6, amended: the trials are the backend's.  A run with a configured
\* weapon awaits a request and leaves the analysis data as it was; the data
\* changes only when the awaited request is answered or the tab is left; an
\* answer gives the backend's data for the strikes requested, from which the
\* series are computed, and a failed request gives no data and no series.
C6_SeriesFromBackendAnswer ==
    [][/\ runs' # runs /\ configured =>
              /\ anPending' # NoAnalysis
              /\ analysisData' = analysisData
       /\ analysisData' # analysisData =>
              \/ /\ activeTab' # activeTab
                 /\ analysisData' = NoData
              \/ /\ anPending # NoAnalysis
                 /\ anPending' = NoAnalysis
                 /\ IF anError' = FailedError
                    THEN /\ analysisData' = NoData
                         /\ CumulativeData(analysisData') = <<>>
                         /\ DistributionData(analysisData') = <<>>
                    ELSE /\ analysisData' \in BackendAnalysis(anPending.num_strikes)
                         /\ seriesOf(analysisData')
       /\ anError' = FailedError /\ anError # FailedError => analysisData' = NoData]_vars

\* An analysis was answered by the backend and its series are shown: two
\* strikes of different damage, both counted in the histogram.
C6_Witness ==
    /\ activeTab = "analysis"
    /\ anError = ""
    /\ ~anLoading
    /\ Len(CumulativeData(analysisData)) = 2
    /\ CumulativeData(analysisData)[2].Overall = 3
    /\ SumTo(DistributionData(analysisData), NumBins) = 2

C10_PreviewHoldsEffectStyles ==
    /\ Len(formData.primary_effect_styles) > 0 =>
          <<"primary_effect_styles", formData.primary_effect_styles>>
              \in YAMLPreview(weaponConfig)
    /\ Len(formData.secondary_effect_styles) > 0 =>
          <<"secondary_effect_styles", formData.secondary_effect_styles>>
              \in YAMLPreview(weaponConfig)

C9_SavedTextRemains ==
    [][\A a, b \in Designers :
          /\ a # b
          /\ a \in noteServer
          /\ panel[b] /\ ~noteLoading[b]
          /\ a \notin notes[b]
          /\ \E p \in posts : p.by = b /\ p.content = notes[b] /\ posts' = posts \ {p}
          => a \in noteServer']_vars

\* C11: after a Load of a saved weapon config has succeeded and every change
\* callback has run, the page's config is the loaded config and the form
\* holds the loaded values.
C11_LoadedConfigStays ==
    (pgKind = "weapons" /\ pgEvent.kind = "load" /\ Quiescent) =>
        /\ pgConfig.data = pgEvent.data
        /\ pgForm.data = FormInit("weapons", pgEvent.data)

\* C12: between two events the form's effect runs at most twice; when no
\* run is pending the page's config is the form's data; and once the events
\* have ended the exchange comes to rest.
C12_ExchangeSettles ==
    /\ [](pgRuns <= 2)
    /\ [](pgKind # "none" /\ Quiescent => pgConfig = pgForm)
    /\ <>[]Quiescent

\* An edit's exchange has come to rest after two runs of the effect.
C12_Witness ==
    /\ pgKind \in {"weapons", "skills"}
    /\ pgEvent.kind = "edit"
    /\ pgRuns = 2
    /\ Quiescent
    /\ pgConfig = pgForm

\* C13: after the spell form has reported its data, the spells page's config,
\* its preview and the config a Save posts still hold the affinities and
\* detriments the page was initialised with.
C13_SpellKeepsAffinities ==
    /\ (pgKind = "spells" /\ pgEvent.kind = "mount" /\ pgRuns > 0) =>
           <<"affinities", DefaultAffinities>> \in SpellYAMLPreview(pgConfig.data)
    /\ (pgKind = "spells" /\ pgEvent.kind # "load" /\ pgSaved.saved) =>
           "affinities" \in DOMAIN pgSaved.config

\* The pending timers among timers that an instance of the panel armed for
\* a tab.
TimersIn(timers, inst, tab) == {t \in timers : t.inst = inst /\ t.tab = tab}

\* The last call of saveNote an instance made for a tab; its id is 0 when
\* there is none.
LatestCall(inst, tab) ==
    LET cs == {c \in caCalls : c.inst = inst /\ c.tab = tab}
    IN  IF cs = {} THEN [id |-> 0, content |-> EmptyText]
        ELSE CHOOSE c \in cs : \A d \in cs : d.id <= c.id

\* An edit arms the timer that will POST the text typed after the full
\* delay, and it is then the only timer its panel has pending for the tab.
EditRearmsTimer ==
    (caEvents' = caEvents + 1 /\ caLast'.step = "edit") =>
        TimersIn(caTimers', caInst, caTab) =
            {[id |-> caIds', inst |-> caInst, tab |-> caTab,
              content |-> caNotes'[caTab], left |-> Delay]}

\* A POST that is sent is the POST of the last saveNote call its panel made
\* for the tab, carries that call's text, and leaves no timer of that panel
\* pending for the tab: the calls a later call followed within the delay
\* send nothing.
PostIsOfLatestCall ==
    Len(caPosts') > Len(caPosts) =>
        /\ Len(caPosts') = Len(caPosts) + 1
        /\ LET p == caPosts'[Len(caPosts')]
           IN  /\ p.timer = LatestCall(p.inst, p.tab).id
               /\ p.content = LatestCall(p.inst, p.tab).content
               /\ TimersIn(caTimers', p.inst, p.tab) = {}

\* C14, as stated: for each notes tab at most one save timer is pending at
\* any time; an edit cancels the tab's pending timer and arms a new one; a
\* burst of edits closer than the delay sends exactly one POST, with the
\* text of the last edit.
C14_OneTimerPerTab ==
    /\ [](\A tab \in Tabs : Cardinality({t \in caTimers : t.tab = tab}) <= 1)
    /\ [][EditRearmsTimer]_vars
    /\ [][PostIsOfLatestCall]_vars

\* C14, amended: for each notes tab at most one save timer armed by one
\* mounted panel is pending at any time, and it is the one the panel's ref
\* holds; an edit cancels it and arms a new one; a burst of edits closer than
\* the delay in one panel sends exactly one POST, with the text of the last
\* edit.  (The timers of a panel that was closed stay pending beside those
\* of the panel opened next.)
C14_OneTimerPerTabOfPanel ==
    /\ [](\A tab \in Tabs, inst \in 1..caInst :
              Cardinality(TimersIn(caTimers, inst, tab)) <= 1)
    /\ [](caMounted =>
              \A tab \in Tabs : \A t \in TimersIn(caTimers, caInst, tab) :
                  t.id = caRef[tab])
    /\ [][EditRearmsTimer]_vars
    /\ [][PostIsOfLatestCall]_vars

\* A burst of two edits of one tab has sent one POST, that of the second
\* edit.
C14_Witness ==
    /\ caMounted
    /\ caIds = 2
    /\ \A c \in caCalls : c.tab = caTab /\ c.inst = caInst /\ c.content # EmptyText
    /\ Cardinality({c.content : c \in caCalls}) = 2
    /\ Len(caPosts) = 1
    /\ caPosts[1].timer = 2
    /\ caPosts[1].content = caNotes[caTab]
    /\ caTimers = {}

\* The POST of a saveNote call has been sent with the call's tab and text.
Posted(c) ==
    \E k \in 1..Len(caPosts) :
        /\ caPosts[k].timer = c.id
        /\ caPosts[k].tab = c.tab
        /\ caPosts[k].content = c.content

\* C15: once the designer has stopped editing, the text of the last saveNote
\* call of every tab of every panel, open or closed since, is eventually
\* posted and stays posted.
C15_LastTextIsPosted ==
    <>[](\A c \in caCalls : c.id = LatestCall(c.inst, c.tab).id => Posted(c))

\* The panel was closed before the delay had passed, and the timer of the
\* edit has sent its POST since.
C15_Witness ==
    /\ ~caMounted
    /\ caLast.step = "fire"
    /\ caPosts # <<>>
    /\ LET p == caPosts[Len(caPosts)]
       IN  /\ p.inst = caInst
           /\ p.content # EmptyText
           /\ p.timer = LatestCall(p.inst, p.tab).id

\* C16: the textarea's blur sends the POST of the active tab's text in the
\* same step, without a delay.
C16_BlurSavesAtOnce ==
    [][(caEvents' = caEvents + 1 /\ caLast'.step = "blur") =>
           /\ Len(caPosts') = Len(caPosts) + 1
           /\ caPosts'[Len(caPosts')].tab = caTab
           /\ caPosts'[Len(caPosts')].content = caNotes[caTab]]_vars

\* The sum of a roll: of the sequence of the sides the dice show.
RECURSIVE RollTotal(_)
RollTotal(roll) == IF roll = <<>> THEN 0 ELSE Head(roll) + RollTotal(Tail(roll))

\* The number of ways to roll the total t with numDice dice of numSides
\* sides, counted over all rolls.
WaysToRoll(numDice, numSides, t) ==
    Cardinality({roll \in [1..numDice -> 1..numSides] : RollTotal(roll) = t})

\* C17: for numDice >= 1 and numSides >= 1 the probabilities have the totals
\* numDice..numDice*numSides as their support, each total's probability is
\* its number of ways over numSides^numDice, the ways sum to
\* numSides^numDice, and the distribution is symmetric about its midpoint.
C17_DiceProbabilities ==
    dice.phase = "done" =>
        LET n == dice.numDice
            s == dice.numSides
            p == dice.probabilities
            total == Pow(s, n)
        IN  /\ n >= 1 /\ s >= 1
            /\ DOMAIN p = n..(n * s)
            /\ \A t \in DOMAIN p :
                   /\ p[t] = <<WaysToRoll(n, s, t), total>>
                   /\ p[t][1] > 0
                   /\ p[t] = p[n + n * s - t]
            /\ SumOver([t \in DOMAIN p |-> p[t][1]], DOMAIN p) = total

\* 2d6 has been calculated: 7 has 6 ways of 36.
C17_Witness ==
    /\ dice.phase = "done"
    /\ dice.numDice = 2
    /\ dice.numSides = 6
    /\ dice.probabilities[7] = <<6, 36>>
    /\ dice.probabilities[2] = <<1, 36>>


====
